---- MODULE Spec2Model ----
(***************************************************************************)
(* A model of s3vfs (src/s3vfs.go): the S3FS adapter (Open, Lstat, Stat,   *)
(* ReadDir, Create, Remove, Mkdir, MkdirAll) over a key-addressed backend, *)
(* and the explicitFetchFile range reader (Read, Fetch, Seek, Close).      *)
(* Paths are sequences of one-character strings, so that path cleaning is  *)
(* computed the way path.Clean computes it.                                *)
(***************************************************************************)
EXTENDS Integers, Sequences, FiniteSets, TLC

VARIABLES store, last, f, unreleased, rlast

vars == <<store, last, f, unreleased, rlast>>

fsVars == <<store, last>>

readerVars == <<f, unreleased, rlast>>

(***************************************************************************)
(* Bounds.                                                                 *)
(***************************************************************************)
MaxPathLen == 3

MaxPayload == 2

ObjLen == 4

MaxFetch == 3

MaxRead == 2

MaxPos == 5

MaxUnreleased == 1

(***************************************************************************)
(* Strings.                                                                *)
(***************************************************************************)
Chars == {"/", ".", "a"}

Dot == <<".">>

DotDot == <<".", ".">>

Slash == <<"/">>

Names == {<<"a">>}

Min(a, b) == IF a <= b THEN a ELSE b

HasPrefix(s, pre) ==
  /\ Len(pre) <= Len(s)
  /\ SubSeq(s, 1, Len(pre)) = pre

TrimPrefix(s, pre) ==
  IF HasPrefix(s, pre) THEN SubSeq(s, Len(pre) + 1, Len(s)) ELSE s

RECURSIVE SplitAcc(_, _, _)
SplitAcc(p, cur, acc) ==
  IF p = <<>>
  THEN IF cur = <<>> THEN acc ELSE Append(acc, cur)
  ELSE IF Head(p) = "/"
       THEN SplitAcc(Tail(p), <<>>, IF cur = <<>> THEN acc ELSE Append(acc, cur))
       ELSE SplitAcc(Tail(p), Append(cur, Head(p)), acc)

\* The non-empty segments of a path, in order.
Segments(p) == SplitAcc(p, <<>>, <<>>)

RECURSIVE JoinSegs(_)
JoinSegs(segs) ==
  IF segs = <<>> THEN <<>>
  ELSE IF Len(segs) = 1 THEN segs[1]
  ELSE segs[1] \o Slash \o JoinSegs(Tail(segs))

\* path.Clean's loop over the segments: "." is dropped, ".." removes the
\* segment before it, is kept in front of a relative path and is dropped at
\* the root.
RECURSIVE CleanSegs(_, _, _)
CleanSegs(segs, rooted, out) ==
  IF segs = <<>> THEN out
  ELSE LET s == Head(segs)
           rest == Tail(segs)
       IN IF s = Dot THEN CleanSegs(rest, rooted, out)
          ELSE IF s = DotDot
               THEN IF out # <<>> /\ out[Len(out)] # DotDot
                    THEN CleanSegs(rest, rooted, SubSeq(out, 1, Len(out) - 1))
                    ELSE IF rooted THEN CleanSegs(rest, rooted, out)
                         ELSE CleanSegs(rest, rooted, Append(out, s))
               ELSE CleanSegs(rest, rooted, Append(out, s))

\* path.Clean / filepath.Clean.
Clean(p) ==
  IF p = <<>> THEN Dot
  ELSE LET rooted == Head(p) = "/"
           out == CleanSegs(Segments(p), rooted, <<>>)
       IN IF rooted THEN Slash \o JoinSegs(out)
          ELSE IF out = <<>> THEN Dot ELSE JoinSegs(out)

\* path.Join of two elements: empty elements are left out, the rest cleaned.
Join(a, b) ==
  IF a = <<>> /\ b = <<>> THEN <<>>
  ELSE IF b = <<>> THEN Clean(a)
  ELSE IF a = <<>> THEN Clean(b)
  ELSE Clean(a \o Slash \o b)

SeqsUpTo(S, n) == UNION {[1..k -> S] : k \in 0..n}

\* The paths the operations are called with: every string over Chars up to
\* MaxPathLen whose segments are ".", ".." or a name.
Paths ==
  {p \in SeqsUpTo(Chars, MaxPathLen) :
     \A i \in 1..Len(Segments(p)) : Segments(p)[i] \in {Dot, DotDot} \cup Names}

\* Payload(n): n bytes, different payloads differing in their first byte.
Payload(n) == [i \in 1..n |-> n - i + 1]

Payloads == {Payload(n) : n \in 0..MaxPayload}

(***************************************************************************)
(* The bucket and the backend.  The store maps the URL path of each object *)
(* of the service to its bytes.                                            *)
(***************************************************************************)
BucketPath == <<"/", "B">>

\* S3FS.url: the URL path of the object a path names (tabulated over Paths).
urlTable == [p \in Paths |-> Join(BucketPath, p)]

url(path) == urlTable[path]

IsObjectURL(u) ==
  /\ HasPrefix(u, BucketPath \o Slash)
  /\ Len(u) > Len(BucketPath) + 1

\* The key, within the bucket, of the object at URL path u.
KeyOf(u) == TrimPrefix(u, BucketPath \o Slash)

\* The keys of the bucket that start with prefix.
KeysWithPrefix(st, prefix) ==
  {KeyOf(u) : u \in {v \in DOMAIN st : IsObjectURL(v) /\ HasPrefix(KeyOf(v), prefix)}}

\* GET bucket?prefix=..&max-keys=n: how many Contents elements come back.
ListCount(st, prefix, maxKeys) ==
  Min(Cardinality(KeysWithPrefix(st, prefix)), maxKeys)

\* HEAD of a URL path: the object's status and length; the bucket answers
\* 200 with no content.
HeadStatus(st, u) ==
  IF u \in DOMAIN st THEN 200 ELSE IF u = BucketPath THEN 200 ELSE 404

HeadLength(st, u) == IF u \in DOMAIN st THEN Len(st[u]) ELSE 0

\* The body of the bucket's own URL: its listing document.
ListingBody == <<60>>

NoRange == <<>>

\* GET of a URL path with an optional "bytes=s-e" range (both ends
\* inclusive).  A range whose first byte is past the object is answered 416;
\* one with e < s is not a range and the whole object is sent.
GetStatus(st, u, rng) ==
  IF u \in DOMAIN st
  THEN IF rng # NoRange /\ rng[1] <= rng[2] /\ rng[1] >= Len(st[u]) THEN 416
       ELSE IF rng # NoRange /\ rng[1] <= rng[2] THEN 206
       ELSE 200
  ELSE IF u = BucketPath THEN 200 ELSE 404

GetBody(st, u, rng) ==
  IF u \in DOMAIN st
  THEN IF rng # NoRange /\ rng[1] <= rng[2]
       THEN SubSeq(st[u], rng[1] + 1, Min(rng[2] + 1, Len(st[u])))
       ELSE st[u]
  ELSE ListingBody

\* rangeTransport.RoundTrip: sets the range header, and turns 206 into 200.
RoundTripStatus(st, u, rng) ==
  LET s == GetStatus(st, u, rng) IN IF rng # NoRange /\ s = 206 THEN 200 ELSE s

(***************************************************************************)
(* Results of the adapter's operations.  err is "" on success; wrap is the *)
(* os.PathError a surfaced error is wrapped in (NoWrap for a bare error).  *)
(***************************************************************************)
NoWrap == [op |-> "", path |-> <<>>]

PathError(op, path) == [op |-> op, path |-> path]

Req(m, u, rng, prefix) == [m |-> m, u |-> u, rng |-> rng, prefix |-> prefix]

NoResult ==
  [op |-> "none", path |-> <<>>, fault |-> "none", ok |-> TRUE, err |-> "",
   wrap |-> NoWrap, kind |-> "", name |-> <<>>, size |-> 0, data |-> <<>>,
   names |-> {}, reqs |-> <<>>, leaked |-> FALSE,
   before |-> [v \in {} |-> <<>>]]

Failure(err, wrap, reqs) ==
  [NoResult EXCEPT !.ok = FALSE, !.err = err, !.wrap = wrap, !.reqs = reqs]

\* path.Base of a clean, non-empty key: its last segment.
Base(p) ==
  IF p = <<>> THEN Dot
  ELSE LET segs == Segments(p)
       IN IF segs = <<>> THEN Slash ELSE segs[Len(segs)]

(***************************************************************************)
(* S3FS.open: one GET (ranged when rangeHeader is not empty), the whole    *)
(* body read into memory.  fault is what the transport does to the         *)
(* request: "none", "transport" (the request fails) or "body" (reading the *)
(* response body fails).                                                   *)
(***************************************************************************)
open(st, name, rangeHeader, fault) ==
  LET u == url(name)
      reqs == <<Req("GET", u, rangeHeader, <<>>)>>
  IN IF fault = "transport"
     THEN Failure("transport", PathError("open", u), reqs)
     ELSE IF RoundTripStatus(st, u, rangeHeader) # 200
     THEN Failure("status", PathError("open", u), reqs)
     ELSE IF fault = "body"
     THEN [Failure("read", NoWrap, reqs) EXCEPT !.leaked = TRUE]
     ELSE [NoResult EXCEPT !.data = GetBody(st, u, rangeHeader), !.reqs = reqs]

(***************************************************************************)
(* S3FS.lstat and S3FS.Lstat.  fault: "none", "transport" (the listing     *)
(* request fails), "body" (the listing cannot be decoded) or "head" (the   *)
(* HEAD request fails).                                                    *)
(***************************************************************************)
lstatNameTable == [p \in Paths |-> TrimPrefix(Clean(p), Slash)]

lstatName(name) == lstatNameTable[name]

\* lstat with the exact-key probe made before the listing.
lstatProbeFirst(st, name, fault) ==
  LET n == lstatName(name)
      listReq == Req("GET", BucketPath, NoRange, n \o Slash)
      headReq == Req("HEAD", url(n), NoRange, <<>>)
  IN IF n = Dot
     THEN [NoResult EXCEPT !.kind = "dir", !.name = Dot, !.size = 0]
     ELSE IF fault = "head"
     THEN Failure("transport", NoWrap, <<headReq>>)
     ELSE IF HeadStatus(st, url(n)) = 200
     THEN [NoResult EXCEPT !.kind = "file", !.name = n,
                           !.size = HeadLength(st, url(n)), !.reqs = <<headReq>>]
     ELSE IF fault = "transport"
     THEN Failure("transport", NoWrap, <<headReq, listReq>>)
     ELSE IF fault = "body"
     THEN Failure("decode", NoWrap, <<headReq, listReq>>)
     ELSE IF ListCount(st, n \o Slash, 1) = 1
     THEN [NoResult EXCEPT !.kind = "dir", !.name = n, !.size = 0,
                           !.reqs = <<headReq, listReq>>]
     ELSE Failure("NotExist", NoWrap, <<headReq, listReq>>)

\* The listing prefix with no "/" after the name.
ListPrefixNoSlash(n) == n

\* The prefix of lstat's listing request: name + "/".
ListPrefix(n) == n \o Slash

lstat(st, name, fault) ==
  LET n == lstatName(name)
      listReq == Req("GET", BucketPath, NoRange, ListPrefix(n))
      headReq == Req("HEAD", url(n), NoRange, <<>>)
  IN IF n = Dot
     THEN [NoResult EXCEPT !.kind = "dir", !.name = Dot, !.size = 0]
     ELSE IF fault = "transport"
     THEN Failure("transport", NoWrap, <<listReq>>)
     ELSE IF fault = "body"
     THEN Failure("decode", NoWrap, <<listReq>>)
     ELSE IF ListCount(st, ListPrefix(n), 1) = 1
     THEN [NoResult EXCEPT !.kind = "dir", !.name = n, !.size = 0,
                           !.reqs = <<listReq>>]
     ELSE IF fault = "head"
     THEN Failure("transport", NoWrap, <<listReq, headReq>>)
     ELSE IF HeadStatus(st, url(n)) = 404
     THEN Failure("NotExist", NoWrap, <<listReq, headReq>>)
     ELSE IF HeadStatus(st, url(n)) # 200
     THEN Failure("status", NoWrap, <<listReq, headReq>>)
     ELSE [NoResult EXCEPT !.kind = "file", !.name = n,
                           !.size = HeadLength(st, url(n)),
                           !.reqs = <<listReq, headReq>>]

LstatResult(st, name, fault) ==
  LET r == lstat(st, name, fault)
  IN IF r.ok THEN r ELSE [r EXCEPT !.wrap = PathError("lstat", url(name))]

\* S3FS.ReadDir: the names under the path's prefix, each reduced to its
\* last segment.
ReadDirResult(st, path, fault) ==
  LET u == url(path)
      prefix == IF IsObjectURL(u) THEN KeyOf(u) \o Slash ELSE <<>>
      reqs == <<Req("GET", BucketPath, NoRange, prefix)>>
  IN IF fault # "none"
     THEN Failure(IF fault = "transport" THEN "transport" ELSE "decode", NoWrap, reqs)
     ELSE [NoResult EXCEPT !.names = {Base(k) : k \in KeysWithPrefix(st, prefix)},
                           !.reqs = reqs]

\* S3FS.Create, the writes and the Close of the stream it returns.
CreateResult(st, path, fault) ==
  LET u == url(path)
      reqs == <<Req("PUT", u, NoRange, <<>>)>>
  IN IF fault = "transport"
     THEN Failure("transport", PathError("create", u), reqs)
     ELSE IF ~IsObjectURL(u)
     THEN Failure("status", PathError("create", u), reqs)
     ELSE IF fault = "body"
     THEN Failure("write", NoWrap, reqs)
     ELSE [NoResult EXCEPT !.reqs = reqs]

\* Create that appends to the object already stored instead of truncating it.
CreateStoreAppend(st, path, data, fault) ==
  IF CreateResult(st, path, fault).ok
  THEN (url(path) :>
          ((IF url(path) \in DOMAIN st THEN st[url(path)] ELSE <<>>) \o data)) @@ st
  ELSE st

CreateStore(st, path, data, fault) ==
  IF CreateResult(st, path, fault).ok THEN (url(path) :> data) @@ st ELSE st

\* S3FS.Remove: DELETE of the mapped key, then Close of the response body.
RemoveResult(st, name, fault) ==
  LET u == url(name)
      reqs == <<Req("DELETE", u, NoRange, <<>>)>>
  IN IF fault = "transport"
     THEN Failure("transport", NoWrap, reqs)
     ELSE IF ~IsObjectURL(u)
     THEN Failure("status", NoWrap, reqs)
     ELSE IF fault = "body"
     THEN Failure("close", NoWrap, reqs)
     ELSE [NoResult EXCEPT !.reqs = reqs]

\* Remove that deletes the key made of the path as given, not cleaned.
RemoveStoreUncleaned(st, name, fault) ==
  LET u == BucketPath \o Slash \o name
  IN IF fault # "transport" /\ IsObjectURL(url(name))
     THEN [v \in DOMAIN st \ {u} |-> st[v]]
     ELSE st

RemoveStore(st, name, fault) ==
  LET u == url(name)
  IN IF fault # "transport" /\ IsObjectURL(u)
     THEN [v \in DOMAIN st \ {u} |-> st[v]]
     ELSE st

Faults == {"none", "transport", "body"}

LstatFaults == Faults \cup {"head"}

\* What last records of a call: its name, arguments, the store before it,
\* and its result.
Done(op, path, fault, r) ==
  [r EXCEPT !.op = op, !.path = path, !.fault = fault, !.before = store]

(***************************************************************************)
(* The adapter's operations as actions.  The adapter is synchronous: a     *)
(* call is made when the caller holds no pending result (last.op is        *)
(* "none"), and Return is the caller taking the result of the call.        *)
(***************************************************************************)
Lstat(name, fault) ==
  /\ last.op = "none"
  /\ last' = Done("Lstat", name, fault, LstatResult(store, name, fault))
  /\ UNCHANGED <<store, readerVars>>

Stat(name, fault) ==
  /\ last.op = "none"
  /\ last' = Done("Stat", name, fault, LstatResult(store, name, fault))
  /\ UNCHANGED <<store, readerVars>>

Open(name, fault) ==
  /\ last.op = "none"
  /\ last' = Done("Open", name, fault, open(store, name, NoRange, fault))
  /\ UNCHANGED <<store, readerVars>>

ReadDir(path, fault) ==
  /\ last.op = "none"
  /\ last' = Done("ReadDir", path, fault, ReadDirResult(store, path, fault))
  /\ UNCHANGED <<store, readerVars>>

Create(path, data, fault) ==
  /\ last.op = "none"
  /\ last' = [Done("Create", path, fault, CreateResult(store, path, fault))
                EXCEPT !.data = data]
  /\ store' = CreateStore(store, path, data, fault)
  /\ UNCHANGED readerVars

Remove(name, fault) ==
  /\ last.op = "none"
  /\ last' = Done("Remove", name, fault, RemoveResult(store, name, fault))
  /\ store' = RemoveStore(store, name, fault)
  /\ UNCHANGED readerVars

\* Mkdir that stores an empty object at the directory's key.
MkdirPutsObject(name) ==
  /\ last.op = "none"
  /\ last' = Done("Mkdir", name, "none",
                  [NoResult EXCEPT !.reqs = <<Req("PUT", url(name), NoRange, <<>>)>>])
  /\ store' = IF IsObjectURL(url(name)) /\ url(name) \notin DOMAIN store
              THEN (url(name) :> <<>>) @@ store
              ELSE store
  /\ UNCHANGED readerVars

\* S3FS.Mkdir: returns nil and does nothing else.
Mkdir(name) ==
  /\ last.op = "none"
  /\ last' = Done("Mkdir", name, "none", NoResult)
  /\ UNCHANGED <<store, readerVars>>

MkdirAll(name) ==
  /\ last.op = "none"
  /\ last' = Done("MkdirAll", name, "none", NoResult)
  /\ UNCHANGED <<store, readerVars>>

Return ==
  /\ last.op # "none"
  /\ last' = NoResult
  /\ UNCHANGED <<store, readerVars>>

(***************************************************************************)
(* The range reader.  rc is the backing stream: nopCloser over a           *)
(* bytes.Reader holding the bytes b, read position i (NoStream is nil).    *)
(***************************************************************************)
NoStream == [open |-> FALSE, b |-> <<>>, i |-> 0]

\* The object the reader is opened on, and its bytes: the byte at offset k
\* of the object is k + 1, so that every byte tells its offset.
ReaderName == <<"a">>

ObjData == [k \in 1..ObjLen |-> k]

\* S3FS.OpenFetcher.
OpenFetcher == [startByte |-> 0, endByte |-> 0, rc |-> NoStream, autofetch |-> TRUE]

\* The result of a reader operation: rf is the reader after it, n the
\* number a Seek or a Read returns, data the bytes a Read returns, reqs the
\* backend requests made, fetches the Fetch calls made, leaked whether a
\* response body was left open.
ReaderResult(rf, ok, err, wrap, n, data, reqs, fetches, leaked) ==
  [rf |-> rf, ok |-> ok, err |-> err, wrap |-> wrap, n |-> n, data |-> data,
   reqs |-> reqs, fetches |-> fetches, leaked |-> leaked]

\* bytes.Reader.Seek: the new position, or an error that leaves it.
BytesSeekOk(rc, offset, whence) ==
  /\ whence \in {0, 1, 2}
  /\ (CASE whence = 0 -> offset
        [] whence = 1 -> rc.i + offset
        [] whence = 2 -> Len(rc.b) + offset) >= 0

BytesSeekPos(rc, offset, whence) ==
  CASE whence = 0 -> offset
    [] whence = 1 -> rc.i + offset
    [] whence = 2 -> Len(rc.b) + offset
    [] OTHER -> 0

\* bytes.Reader.Read of a buffer of n bytes: io.EOF at or past the end.
BytesReadCount(rc, n) ==
  IF rc.i >= Len(rc.b) THEN 0 ELSE Min(n, Len(rc.b) - rc.i)

\* Seek that hands whence 2 to the bytes.Reader like the other values.
SeekResultEndRelative(fr, offset, whence) ==
  IF ~fr.rc.open
  THEN ReaderResult(fr, FALSE, "must call Fetch before Seek", NoWrap, 0, <<>>,
                    <<>>, <<>>, FALSE)
  ELSE LET off == IF whence = 0 THEN offset - fr.startByte ELSE offset
       IN IF BytesSeekOk(fr.rc, off, whence)
          THEN ReaderResult([fr EXCEPT !.rc.i = BytesSeekPos(fr.rc, off, whence)],
                            TRUE, "", NoWrap,
                            BytesSeekPos(fr.rc, off, whence) + fr.startByte,
                            <<>>, <<>>, <<>>, FALSE)
          ELSE ReaderResult(fr, FALSE,
                            IF whence \in {0, 1, 2} THEN "negative position"
                            ELSE "invalid whence",
                            NoWrap, 0 + fr.startByte, <<>>, <<>>, <<>>, FALSE)

\* Seek that looks at whence before it looks for the stream.
SeekResultWhenceFirst(fr, offset, whence) ==
  IF whence = 2
  THEN ReaderResult(fr, FALSE, "errRelOfs", NoWrap, 0, <<>>, <<>>, <<>>, FALSE)
  ELSE IF ~fr.rc.open
  THEN ReaderResult(fr, FALSE, "must call Fetch before Seek", NoWrap, 0, <<>>,
                    <<>>, <<>>, FALSE)
  ELSE LET off == IF whence = 0 THEN offset - fr.startByte ELSE offset
       IN IF BytesSeekOk(fr.rc, off, whence)
          THEN ReaderResult([fr EXCEPT !.rc.i = BytesSeekPos(fr.rc, off, whence)],
                            TRUE, "", NoWrap,
                            BytesSeekPos(fr.rc, off, whence) + fr.startByte,
                            <<>>, <<>>, <<>>, FALSE)
          ELSE ReaderResult(fr, FALSE,
                            IF whence \in {0, 1} THEN "negative position"
                            ELSE "invalid whence",
                            NoWrap, 0 + fr.startByte, <<>>, <<>>, <<>>, FALSE)

\* explicitFetchFile.Seek.
SeekResult(fr, offset, whence) ==
  IF ~fr.rc.open
  THEN ReaderResult(fr, FALSE, "must call Fetch before Seek", NoWrap, 0, <<>>,
                    <<>>, <<>>, FALSE)
  ELSE IF whence = 2
  THEN ReaderResult(fr, FALSE, "errRelOfs", NoWrap, 0, <<>>, <<>>, <<>>, FALSE)
  ELSE LET off == IF whence = 0 THEN offset - fr.startByte ELSE offset
       IN IF BytesSeekOk(fr.rc, off, whence)
          THEN ReaderResult([fr EXCEPT !.rc.i = BytesSeekPos(fr.rc, off, whence)],
                            TRUE, "", NoWrap,
                            BytesSeekPos(fr.rc, off, whence) + fr.startByte,
                            <<>>, <<>>, <<>>, FALSE)
          ELSE ReaderResult(fr, FALSE,
                            IF whence \in {0, 1} THEN "negative position"
                            ELSE "invalid whence",
                            NoWrap, 0 + fr.startByte, <<>>, <<>>, <<>>, FALSE)

\* isFetched that takes a range ending at the window's end as not fetched.
isFetchedStrict(fr, start, end) ==
  /\ fr.rc.open
  /\ start <= end
  /\ start >= fr.startByte
  /\ end < fr.endByte

\* explicitFetchFile.isFetched.
isFetched(fr, start, end) ==
  /\ fr.rc.open
  /\ start <= end
  /\ start >= fr.startByte
  /\ end <= fr.endByte

\* Close that forgets to drop the stream.
CloseResultKeepStream(fr) ==
  IF fr.rc.open
  THEN ReaderResult([fr EXCEPT !.startByte = 0, !.endByte = 0],
                    TRUE, "", NoWrap, 0, <<>>, <<>>, <<>>, FALSE)
  ELSE ReaderResult(fr, TRUE, "", NoWrap, 0, <<>>, <<>>, <<>>, FALSE)

\* explicitFetchFile.Close.
CloseResult(fr) ==
  IF fr.rc.open
  THEN ReaderResult([fr EXCEPT !.rc = NoStream, !.startByte = 0, !.endByte = 0],
                    TRUE, "", NoWrap, 0, <<>>, <<>>, <<>>, FALSE)
  ELSE ReaderResult(fr, TRUE, "", NoWrap, 0, <<>>, <<>>, <<>>, FALSE)

\* A range header that asks from the start of the object.
RangeHeaderFromZero(start, end) == <<0, end>>

\* The range header Fetch builds: "bytes=start-end".
RangeHeader(start, end) == <<start, end>>

\* Fetch that does not close the reader before it opens the new range.
FetchResultNoClose(st, fr, start, end, fault) ==
  IF isFetched(fr, start, end)
  THEN ReaderResult(fr, TRUE, "", NoWrap, 0, <<>>, <<>>, <<<<start, end>>>>, FALSE)
  ELSE LET o == open(st, ReaderName, RangeHeader(start, end), fault)
       IN IF o.ok
          THEN ReaderResult([fr EXCEPT !.rc = [open |-> TRUE, b |-> o.data, i |-> 0],
                                       !.startByte = start, !.endByte = end],
                            TRUE, "", NoWrap, 0, <<>>, o.reqs, <<<<start, end>>>>,
                            FALSE)
          ELSE ReaderResult([fr EXCEPT !.rc = NoStream], FALSE, o.err, o.wrap,
                            0, <<>>, o.reqs, <<<<start, end>>>>, o.leaked)

\* Fetch that carries the old cursor over into the new stream.
FetchResultKeepCursor(st, fr, start, end, fault) ==
  IF isFetched(fr, start, end)
  THEN ReaderResult(fr, TRUE, "", NoWrap, 0, <<>>, <<>>, <<<<start, end>>>>, FALSE)
  ELSE LET closed == CloseResult(fr).rf
           o == open(st, ReaderName, RangeHeader(start, end), fault)
           kept == IF fr.rc.open /\ fr.startByte + fr.rc.i >= start
                   THEN fr.startByte + fr.rc.i - start
                   ELSE 0
       IN IF o.ok
          THEN ReaderResult([closed EXCEPT !.rc = [open |-> TRUE, b |-> o.data, i |-> kept],
                                           !.startByte = start, !.endByte = end],
                            TRUE, "", NoWrap, 0, <<>>, o.reqs, <<<<start, end>>>>,
                            FALSE)
          ELSE ReaderResult([closed EXCEPT !.rc = NoStream], FALSE, o.err, o.wrap,
                            0, <<>>, o.reqs, <<<<start, end>>>>, o.leaked)

\* explicitFetchFile.Fetch.
FetchResult(st, fr, start, end, fault) ==
  IF isFetched(fr, start, end)
  THEN ReaderResult(fr, TRUE, "", NoWrap, 0, <<>>, <<>>, <<<<start, end>>>>, FALSE)
  ELSE LET closed == CloseResult(fr).rf
           o == open(st, ReaderName, RangeHeader(start, end), fault)
       IN IF o.ok
          THEN ReaderResult([closed EXCEPT !.rc = [open |-> TRUE, b |-> o.data, i |-> 0],
                                           !.startByte = start, !.endByte = end],
                            TRUE, "", NoWrap, 0, <<>>, o.reqs, <<<<start, end>>>>,
                            FALSE)
          ELSE ReaderResult([closed EXCEPT !.rc = NoStream], FALSE, o.err, o.wrap,
                            0, <<>>, o.reqs, <<<<start, end>>>>, o.leaked)

\* The overfetch factor of Read.
x == 4

\* Read's fetch with no overfetch: the span asked for and no more.
FetchEndExact(start, end) == end

\* The end of the range Read fetches for a span [start, end) not fetched.
FetchEnd(start, end) == end + (end - start) * x

\* explicitFetchFile.Read of a buffer of len bytes.
ReadResult(st, fr, len, fault) ==
  LET sk == SeekResult(fr, 0, 1)
      ofs == sk.n
      start == ofs
      end == ofs + len
      fetchEnd == FetchEnd(start, end)
      ft == IF isFetched(sk.rf, start, end)
            THEN ReaderResult(sk.rf, TRUE, "", NoWrap, 0, <<>>, <<>>, <<>>, FALSE)
            ELSE FetchResult(st, sk.rf, start, fetchEnd, fault)
      n == BytesReadCount(ft.rf.rc, len)
  IN IF ~sk.ok THEN sk
     ELSE IF ~isFetched(sk.rf, start, end) /\ ~sk.rf.autofetch
     THEN ReaderResult(sk.rf, FALSE, "range not fetched", NoWrap, 0, <<>>, <<>>,
                       <<>>, FALSE)
     ELSE IF ~ft.ok THEN ft
     ELSE IF ft.rf.rc.i >= Len(ft.rf.rc.b)
     THEN [ft EXCEPT !.ok = FALSE, !.err = "EOF"]
     ELSE [ft EXCEPT !.rf.rc.i = ft.rf.rc.i + n, !.n = n,
                     !.data = SubSeq(ft.rf.rc.b, ft.rf.rc.i + 1, ft.rf.rc.i + n)]

NoReaderResult ==
  [op |-> "none", a1 |-> 0, a2 |-> 0, fault |-> "none", before |-> OpenFetcher,
   ok |-> TRUE, err |-> "", wrap |-> NoWrap, n |-> 0, data |-> <<>>,
   reqs |-> <<>>, fetches |-> <<>>, leaked |-> FALSE]

\* What rlast records of a reader operation: its name, arguments, the reader
\* before it, and its result.
ReaderDone(op, a1, a2, fault, before, r) ==
  [op |-> op, a1 |-> a1, a2 |-> a2, fault |-> fault, before |-> before,
   ok |-> r.ok, err |-> r.err, wrap |-> r.wrap, n |-> r.n, data |-> r.data,
   reqs |-> r.reqs, fetches |-> r.fetches, leaked |-> r.leaked]

\* The absolute read cursor of a reader holding a stream.
Cursor(fr) == fr.startByte + fr.rc.i

(***************************************************************************)
(* The reader's operations as actions, made one at a time by its one       *)
(* caller.  A response body left open is counted in unreleased.            *)
(***************************************************************************)
ReaderStep(op, a1, a2, fault, r) ==
  /\ unreleased + (IF r.leaked THEN 1 ELSE 0) <= MaxUnreleased
  /\ f' = r.rf
  /\ unreleased' = unreleased + (IF r.leaked THEN 1 ELSE 0)
  /\ rlast' = ReaderDone(op, a1, a2, fault, f, r)
  /\ UNCHANGED fsVars

Read(len, fault) ==
  /\ rlast.op = "none"
  /\ ReaderStep("Read", len, 0, fault, ReadResult(store, f, len, fault))

Fetch(start, end, fault) ==
  /\ rlast.op = "none"
  /\ ReaderStep("Fetch", start, end, fault, FetchResult(store, f, start, end, fault))

\* The cursor a Seek moves to is kept within MaxPos.
Seek(offset, whence) ==
  /\ rlast.op = "none"
  /\ SeekResult(f, offset, whence).ok => SeekResult(f, offset, whence).n <= MaxPos
  /\ ReaderStep("Seek", offset, whence, "none", SeekResult(f, offset, whence))

Close ==
  /\ rlast.op = "none"
  /\ ReaderStep("Close", 0, 0, "none", CloseResult(f))

ReaderReturn ==
  /\ rlast.op # "none"
  /\ rlast' = NoReaderResult
  /\ UNCHANGED <<fsVars, f, unreleased>>

EmptyStore == [v \in {} |-> <<>>]

Init ==
  /\ store = EmptyStore
  /\ last = NoResult
  /\ f = OpenFetcher
  /\ unreleased = 0
  /\ rlast = NoReaderResult

Next ==
  \/ \E name \in Paths, fault \in LstatFaults : Lstat(name, fault)
  \/ \E name \in Paths, fault \in LstatFaults : Stat(name, fault)
  \/ \E name \in Paths, fault \in Faults : Open(name, fault)
  \/ \E path \in Paths, fault \in Faults : ReadDir(path, fault)
  \/ \E path \in Paths, data \in Payloads, fault \in Faults : Create(path, data, fault)
  \/ \E name \in Paths, fault \in Faults : Remove(name, fault)
  \/ \E name \in Paths : Mkdir(name)
  \/ \E name \in Paths : MkdirAll(name)
  \/ Return

\* The adapter over a bucket that starts empty.
Spec == Init /\ [][Next]_vars

\* The reader, opened by OpenFetcher on an object of ObjLen bytes.
ReaderInit ==
  /\ store = (url(ReaderName) :> ObjData)
  /\ last = NoResult
  /\ f = OpenFetcher
  /\ unreleased = 0
  /\ rlast = NoReaderResult

ReaderNext ==
  \/ \E len \in 0..MaxRead, fault \in Faults : Read(len, fault)
  \/ \E start \in 0..MaxFetch, end \in 0..MaxFetch, fault \in Faults :
       Fetch(start, end, fault)
  \/ \E offset \in (0 - MaxPos)..MaxPos, whence \in 0..3 : Seek(offset, whence)
  \/ Close
  \/ ReaderReturn

ReaderSpec == ReaderInit /\ [][ReaderNext]_vars

(***************************************************************************)
(* Properties of Lstat and Stat.                                           *)
(***************************************************************************)
\* The paths that denote the root: "", "." and "/".
RootPaths == {<<>>, Dot, Slash}

StatOps == {"Lstat", "Stat"}

\* The request methods of the last call, in order.
Methods(r) == [i \in 1..Len(r.reqs) |-> r.reqs[i].m]

\* Some stored key of the bucket starts with key + "/".
HasKeyUnder(st, key) ==
  \E u \in DOMAIN st :
    /\ HasPrefix(u, BucketPath \o Slash \o key \o Slash)
    /\ Len(u) > Len(BucketPath) + 1

\* An object is stored at exactly this key of the bucket.
HasObjectAt(st, key) == (BucketPath \o Slash \o key) \in DOMAIN st

\* C1: for every path that denotes the root ("", "." and "/"), Lstat and
\* Stat return directory metadata (kind directory, size 0) and make no
\* backend request, whatever the backend holds or answers.
C1_RootIsDirectoryWithoutRequest ==
  (last.op \in StatOps /\ last.path \in RootPaths) =>
    /\ last.ok
    /\ last.kind = "dir"
    /\ last.size = 0
    /\ last.reqs = <<>>

\* C2: for a non-root path p, if some stored key starts with p + "/" and an
\* object is stored at key p too, Lstat(p) never returns file metadata and
\* never makes the exact-key (HEAD) probe, and whenever the listing is
\* answered it reports a directory of size 0.
C2_DirectoryTakesPrecedence ==
  (/\ last.op \in StatOps
   /\ lstatName(last.path) \notin {Dot, <<>>}
   /\ HasKeyUnder(store, lstatName(last.path))
   /\ HasObjectAt(store, lstatName(last.path))) =>
    /\ last.kind # "file"
    /\ \A i \in 1..Len(last.reqs) : last.reqs[i].m # "HEAD"
    /\ last.fault \notin {"transport", "body"} =>
         (last.ok /\ last.kind = "dir" /\ last.size = 0)

\* A state in which Lstat was called on a path that is both an object and a
\* prefix of another key, and reported a directory.
C2_Witness ==
  /\ last.op = "Lstat"
  /\ last.fault = "none"
  /\ lstatName(last.path) = <<"a">>
  /\ HasKeyUnder(store, <<"a">>)
  /\ HasObjectAt(store, <<"a">>)
  /\ last.kind = "dir"
  /\ Methods(last) = <<"GET">>

(***************************************************************************)
(* Properties of Remove and Create.                                        *)
(***************************************************************************)
\* C3, as stated: once Remove(p) has returned success, the Stat(p) that
\* follows it directly yields NotFound, for any path and any contents.
C3_RemoveThenStatNotFound ==
  (last.op = "Remove" /\ last.ok) =>
    LstatResult(store, last.path, "none").err = "NotExist"

\* C3, amended: once Remove(p) has returned success for a path p that names
\* an object key of the bucket under which no key is stored, the Stat(p)
\* that follows it directly never reports a file or a directory, and yields
\* NotFound (wrapped as an lstat error) whenever the backend answers its
\* requests.
C3_RemoveThenStatNotFoundUnlessPrefix ==
  (/\ last.op = "Remove"
   /\ last.ok
   /\ IsObjectURL(url(last.path))
   /\ ~HasKeyUnder(store, KeyOf(url(last.path)))) =>
    /\ \A fault \in LstatFaults : ~LstatResult(store, last.path, fault).ok
    /\ LstatResult(store, last.path, "none").err = "NotExist"
    /\ LstatResult(store, last.path, "none").wrap.op = "lstat"

\* A state right after a Remove that deleted a stored object with nothing
\* under it.
C3_Witness ==
  /\ last.op = "Remove"
  /\ last.ok
  /\ url(last.path) \in DOMAIN last.before
  /\ url(last.path) \notin DOMAIN store
  /\ ~HasKeyUnder(store, KeyOf(url(last.path)))
  /\ LstatResult(last.before, last.path, "none").kind = "file"
  /\ LstatResult(store, last.path, "none").err = "NotExist"

\* C4: after Create(path), writing a payload and closing the stream have
\* succeeded, Open(path) succeeds when the backend answers and yields exactly
\* that payload, whatever was stored at the path before.
C4_CreateOpenRoundTrip ==
  (last.op = "Create" /\ last.ok) =>
    /\ open(store, last.path, NoRange, "none").ok
    /\ open(store, last.path, NoRange, "none").data = last.data
    /\ \A fault \in Faults :
         open(store, last.path, NoRange, fault).ok =>
           open(store, last.path, NoRange, fault).data = last.data

\* A state right after a Create that replaced a longer, different payload
\* by a shorter non-empty one.
C4_Witness ==
  /\ last.op = "Create"
  /\ last.ok
  /\ url(last.path) \in DOMAIN last.before
  /\ Len(last.before[url(last.path)]) > Len(last.data)
  /\ Len(last.data) > 0
  /\ open(store, last.path, NoRange, "none").data = last.data

(***************************************************************************)
(* Properties of the range reader.                                         *)
(***************************************************************************)
\* The span [o, o + len) of a Read of len bytes lies inside the window of fr.
SpanInWindow(fr, len) ==
  /\ fr.rc.open
  /\ fr.startByte <= Cursor(fr)
  /\ Cursor(fr) + len <= fr.endByte

\* The errors with which the ranged open of a Fetch fails.
FetchErrors == {"transport", "status", "read"}

\* C5: with autofetch enabled and a stream held, a Read of L bytes at cursor
\* o whose span is not inside the window makes exactly one Fetch, Fetch(o,
\* o + 5L), and at most one backend request; if that Fetch succeeds the
\* window is [o, o + 5L), and if it fails the Read fails.
C5_AutofetchOnceFiveTimes ==
  (/\ rlast.op = "Read"
   /\ rlast.before.autofetch
   /\ rlast.before.rc.open
   /\ ~SpanInWindow(rlast.before, rlast.a1)) =>
    LET o == Cursor(rlast.before)
        L == rlast.a1
    IN /\ rlast.fetches = << <<o, o + 5 * L>> >>
       /\ Len(rlast.reqs) = 1
       /\ rlast.reqs[1].rng = <<o, o + 5 * L>>
       /\ f.rc.open => (f.startByte = o /\ f.endByte = o + 5 * L)
       /\ ~f.rc.open => ~rlast.ok
       /\ rlast.err \notin FetchErrors => f.rc.open

\* A Read of two bytes at cursor 2 of the window [0, 2) that fetched and
\* returned the bytes at offsets 2 and 3.
C5_Witness ==
  /\ rlast.op = "Read"
  /\ rlast.a1 = 2
  /\ rlast.before.startByte = 0
  /\ rlast.before.endByte = 2
  /\ Cursor(rlast.before) = 2
  /\ rlast.ok
  /\ f.startByte = 2
  /\ f.endByte = 12
  /\ rlast.data = <<3, 4>>

\* C6: a Read whose span is inside the window makes no backend request and
\* no Fetch and leaves the window bounds as they were; a Fetch(start, end)
\* with start <= end inside the window returns success, makes no backend
\* request and leaves the reader as it was.
C6_NoRequestInsideWindow ==
  /\ (rlast.op = "Read" /\ SpanInWindow(rlast.before, rlast.a1)) =>
       /\ rlast.reqs = <<>>
       /\ rlast.fetches = <<>>
       /\ f.startByte = rlast.before.startByte
       /\ f.endByte = rlast.before.endByte
       /\ f.rc.b = rlast.before.rc.b
  /\ (/\ rlast.op = "Fetch"
      /\ rlast.before.rc.open
      /\ rlast.a1 <= rlast.a2
      /\ rlast.before.startByte <= rlast.a1
      /\ rlast.a2 <= rlast.before.endByte) =>
       /\ rlast.ok
       /\ rlast.reqs = <<>>
       /\ f = rlast.before

\* A Read of two bytes that ends at the end of the window [1, 3) and is
\* served from it.
C6_Witness ==
  /\ rlast.op = "Read"
  /\ rlast.a1 = 2
  /\ rlast.before.startByte = 1
  /\ rlast.before.endByte = 3
  /\ Cursor(rlast.before) = 1
  /\ rlast.data = <<2, 3>>
  /\ rlast.reqs = <<>>

\* A Fetch of exactly the window already held, after one byte was read.
C6_WitnessFetch ==
  /\ rlast.op = "Fetch"
  /\ rlast.before.rc.open
  /\ rlast.a1 = rlast.before.startByte
  /\ rlast.a2 = rlast.before.endByte
  /\ rlast.a1 < rlast.a2
  /\ rlast.ok
  /\ rlast.before.rc.i = 1
  /\ f = rlast.before

\* C7: a Fetch that fails (an explicit one, or the one a Read makes) leaves
\* the reader with no stream and the window 0, 0, never the window it had;
\* while the reader holds no stream every Read and every Seek fails and
\* returns no bytes, and only a successful Fetch gives it a stream again.
C7_FailedFetchLeavesEmptyWindow ==
  /\ (rlast.op \in {"Fetch", "Read"} /\ rlast.err \in FetchErrors) =>
       /\ ~rlast.ok
       /\ f.rc = NoStream
       /\ f.startByte = 0
       /\ f.endByte = 0
  /\ (rlast.op = "Fetch" /\ ~rlast.ok) => rlast.err \in FetchErrors
  /\ (rlast.op \in {"Read", "Seek"} /\ ~rlast.before.rc.open) =>
       /\ ~rlast.ok
       /\ rlast.data = <<>>
       /\ rlast.reqs = <<>>
       /\ ~f.rc.open
  /\ (rlast.op # "none" /\ ~rlast.before.rc.open /\ f.rc.open) =>
       (rlast.op = "Fetch" /\ rlast.ok)

\* A Fetch that failed on a reader holding the window [0, 2), one byte read.
C7_Witness ==
  /\ rlast.op = "Fetch"
  /\ ~rlast.ok
  /\ rlast.before.rc.open
  /\ rlast.before.startByte = 0
  /\ rlast.before.endByte = 2
  /\ rlast.before.rc.i = 1
  /\ f.rc = NoStream
  /\ f.endByte = 0

\* A Read that fails on a reader whose stream a failed Fetch took away.
C7_WitnessRead ==
  /\ rlast.op = "Read"
  /\ rlast.a1 = 1
  /\ ~rlast.before.rc.open
  /\ unreleased = 1
  /\ ~rlast.ok

\* C8: Seek with whence 2 (relative to the end) fails in every reader state
\* and for every offset, and leaves the window, the stream and the cursor as
\* they were.
C8_SeekEndAlwaysFails ==
  (rlast.op = "Seek" /\ rlast.a2 = 2) =>
    /\ ~rlast.ok
    /\ f = rlast.before

\* A Seek relative to the end on a reader holding a stream with the cursor
\* inside its window.
C8_Witness ==
  /\ rlast.op = "Seek"
  /\ rlast.a2 = 2
  /\ rlast.a1 = 0 - 1
  /\ rlast.before.rc.open
  /\ rlast.before.rc.i = 1
  /\ rlast.before.endByte = 3
  /\ rlast.err = "errRelOfs"

\* C9: Seek on a reader that holds no stream (none fetched yet, or closed)
\* fails with the error "must call Fetch before Seek" for every offset and
\* every whence, and changes nothing of the reader.
C9_SeekBeforeFetchFails ==
  (rlast.op = "Seek" /\ ~rlast.before.rc.open) =>
    /\ ~rlast.ok
    /\ rlast.err = "must call Fetch before Seek"
    /\ rlast.n = 0
    /\ f = rlast.before

\* A Seek relative to the end on a reader that holds no stream.
C9_Witness ==
  /\ rlast.op = "Seek"
  /\ rlast.a2 = 2
  /\ rlast.a1 = 1
  /\ ~rlast.before.rc.open
  /\ rlast.err = "must call Fetch before Seek"

\* C10: Close succeeds in every reader state and leaves no stream and the
\* window 0, 0; a Close of a reader that holds no stream (so a second Close
\* directly after a first) succeeds and changes nothing.
C10_CloseIdempotent ==
  (rlast.op = "Close") =>
    /\ rlast.ok
    /\ f.rc = NoStream
    /\ f.startByte = 0
    /\ f.endByte = 0
    /\ f.autofetch = rlast.before.autofetch
    /\ ~rlast.before.rc.open => f = rlast.before
    /\ CloseResult(f).ok
    /\ CloseResult(f).rf = f

\* A Close of a reader holding the window [1, 3) with one byte read.
C10_Witness ==
  /\ rlast.op = "Close"
  /\ rlast.before.rc.open
  /\ rlast.before.startByte = 1
  /\ rlast.before.endByte = 3
  /\ rlast.before.rc.i = 1
  /\ f.rc = NoStream

\* A Close of a reader that a Close has already emptied.
C10_WitnessSecond ==
  /\ rlast.op = "Close"
  /\ ~rlast.before.rc.open
  /\ f = rlast.before

(***************************************************************************)
(* Properties of Mkdir and MkdirAll, of the errors surfaced, and of the    *)
(* directories inferred from the stored keys.                              *)
(***************************************************************************)
\* C11: Mkdir and MkdirAll succeed for every path and every bucket, make no
\* backend request and leave the stored objects as they were, so that every
\* Stat, ReadDir and Open answers after the call as it did before it.
C11_MkdirNoBackendChange ==
  (last.op \in {"Mkdir", "MkdirAll"}) =>
    /\ last.ok
    /\ last.err = ""
    /\ last.reqs = <<>>
    /\ store = last.before
    /\ \A p \in Paths :
         /\ LstatResult(store, p, "none") = LstatResult(last.before, p, "none")
         /\ ReadDirResult(store, p, "none") = ReadDirResult(last.before, p, "none")
         /\ open(store, p, NoRange, "none") = open(last.before, p, NoRange, "none")

\* A Mkdir of "a/a" in a bucket holding the object "a": the directory made
\* is still absent.
C11_Witness ==
  /\ last.op = "Mkdir"
  /\ last.path = <<"a", "/", "a">>
  /\ HasObjectAt(store, <<"a">>)
  /\ LstatResult(store, <<"a", "/", "a">>, "none").err = "NotExist"
  /\ LstatResult(store, <<"a">>, "none").kind = "file"

\* The calls whose error is an error of the adapter's method itself: a
\* failed write or Close of the stream Create returned is not one.
AdapterError(r) ==
  /\ r.op \in {"Open", "ReadDir", "Lstat", "Stat", "Create", "Remove"}
  /\ ~r.ok
  /\ r.err # "write"

\* C12: every error surfaced by Open, ReadDir, Lstat, Stat, Create and
\* Remove is wrapped with the operation's name and the resolved path; none
\* is a bare backend, transport, read or decode error.
C12_EveryErrorWrapped ==
  AdapterError(last) =>
    /\ last.wrap # NoWrap
    /\ last.wrap.op # ""
    /\ last.wrap.path = url(last.path)

\* C13: for every non-root path d, Stat(d), when the backend answers, reports
\* a directory exactly when some stored key starts with d + "/", in every
\* state reached by Create, Remove, Mkdir and MkdirAll calls; and a Stat
\* call made reports so.
C13_DirectoryIffKeyUnder ==
  /\ \A d \in Paths :
       lstatName(d) # Dot =>
         (LstatResult(store, d, "none").kind = "dir"
            <=> HasKeyUnder(store, lstatName(d)))
  /\ (last.op \in StatOps /\ last.fault = "none" /\ lstatName(last.path) # Dot) =>
       (last.kind = "dir" <=> HasKeyUnder(store, lstatName(last.path)))

\* The state after the Remove of the last object under "a": "a" was a
\* directory before it and is none after it.
C13_Witness ==
  /\ last.op = "Remove"
  /\ last.ok
  /\ HasKeyUnder(last.before, <<"a">>)
  /\ ~HasKeyUnder(store, <<"a">>)
  /\ HasObjectAt(store, <<"a">>)
  /\ LstatResult(last.before, <<"a">>, "none").kind = "dir"
  /\ LstatResult(store, <<"a">>, "none").kind = "file"

\* The state after the Create of the first object under "a": "a" has become
\* a directory.
C13_WitnessCreate ==
  /\ last.op = "Create"
  /\ last.ok
  /\ ~HasKeyUnder(last.before, <<"a">>)
  /\ HasKeyUnder(store, <<"a">>)
  /\ LstatResult(last.before, <<"a">>, "none").err = "NotExist"
  /\ LstatResult(store, <<"a">>, "none").kind = "dir"

(***************************************************************************)
(* Properties of the range reader's window, stream and cursor.             *)
(***************************************************************************)
\* The bytes of the object at the offsets [from, to), cut at its end.
ObjBytes(from, to) == SubSeq(ObjData, from + 1, Min(to, ObjLen))

\* C14: a Fetch(start, end) that is not subsumed asks the backend for the
\* bytes of [start, end) and no more: the range asked ends at offset
\* end - 1, and the stream then holds exactly the bytes of the window the
\* reader records.
C14_FetchAsksHalfOpenRange ==
  (/\ rlast.op = "Fetch"
   /\ rlast.fault = "none"
   /\ rlast.a1 < rlast.a2
   /\ ~isFetched(rlast.before, rlast.a1, rlast.a2)) =>
    /\ Len(rlast.reqs) = 1
    /\ rlast.reqs[1].rng[1] = rlast.a1
    /\ rlast.reqs[1].rng[2] = rlast.a2 - 1
    /\ rlast.ok => f.rc.b = ObjBytes(f.startByte, f.endByte)

\* C15: in every state of the reader the window has start <= end, and it is
\* non-empty only while a stream is held.
C15_WindowOrdered ==
  /\ f.startByte <= f.endByte
  /\ (f.startByte < f.endByte) => f.rc.open

\* C16: at most one response body opened for the reader is unreleased, and
\* none is after a Close or after a Fetch that failed.
C16_NoStreamLeftUnreleased ==
  /\ unreleased <= 1
  /\ (rlast.op = "Close" \/ (rlast.op = "Fetch" /\ ~rlast.ok)) => unreleased = 0

\* C17: on a reader as OpenFetcher returns it, a Read of L > 0 bytes, the
\* backend answering, makes Fetch(0, 5L) and returns the leading bytes of
\* the object; it does not fail with a usage error.
C17_FirstReadAutofetches ==
  (/\ rlast.op = "Read"
   /\ rlast.a1 > 0
   /\ rlast.fault = "none"
   /\ rlast.before = OpenFetcher) =>
    /\ rlast.ok
    /\ rlast.err # "must call Fetch before Seek"
    /\ rlast.fetches = << <<0, 5 * rlast.a1>> >>
    /\ rlast.data = ObjBytes(0, rlast.a1)

\* C18: every successful Read returns the object's bytes [c, c + n), c the
\* absolute cursor before it and n the count it returns, and leaves the
\* cursor at c + n, whether it was served from the window or had to fetch.
C18_ReadReturnsBytesAtCursor ==
  (rlast.op = "Read" /\ rlast.ok) =>
    LET c == Cursor(rlast.before)
    IN /\ rlast.before.rc.open
       /\ rlast.n = Len(rlast.data)
       /\ rlast.n <= rlast.a1
       /\ rlast.data = ObjBytes(c, c + rlast.n)
       /\ c + rlast.n <= ObjLen
       /\ f.rc.open
       /\ Cursor(f) = c + rlast.n

\* A Read of one byte at cursor 2 served from the window [2, 3): no request.
C18_Witness ==
  /\ rlast.op = "Read"
  /\ rlast.ok
  /\ rlast.before.startByte = 2
  /\ rlast.before.endByte = 3
  /\ Cursor(rlast.before) = 2
  /\ rlast.reqs = <<>>
  /\ rlast.data = <<3>>
  /\ Cursor(f) = 3

\* A Read of two bytes at cursor 1 of the window [0, 2) that had to fetch
\* and replaced the window.
C18_WitnessAutofetch ==
  /\ rlast.op = "Read"
  /\ rlast.ok
  /\ rlast.a1 = 2
  /\ rlast.before.startByte = 0
  /\ rlast.before.endByte = 2
  /\ Cursor(rlast.before) = 1
  /\ Len(rlast.reqs) = 1
  /\ f.startByte = 1
  /\ rlast.data = <<2, 3>>
  /\ Cursor(f) = 3

\* C19: on a reader holding a window [s, e), Seek(x, 0) for any x >= 0
\* succeeds and returns x, and a Seek(0, 1) made directly after it returns x.
C19_SeekAbsoluteAnyOffset ==
  (/\ rlast.op = "Seek"
   /\ rlast.a2 = 0
   /\ rlast.a1 >= 0
   /\ rlast.before.rc.open
   /\ rlast.before.startByte <= rlast.before.endByte) =>
    /\ rlast.ok
    /\ rlast.n = rlast.a1
    /\ SeekResult(f, 0, 1).ok
    /\ SeekResult(f, 0, 1).n = rlast.a1

\* C20: a Fetch(start, end) subsumed by the window leaves the reader, its
\* cursor included, as it was; a successful Fetch that replaces the window
\* leaves the cursor at the absolute offset start, whatever it was before.
C20_FetchCursor ==
  (rlast.op = "Fetch" /\ rlast.ok) =>
    IF isFetched(rlast.before, rlast.a1, rlast.a2)
    THEN /\ f = rlast.before
         /\ Cursor(f) = Cursor(rlast.before)
         /\ rlast.reqs = <<>>
    ELSE /\ f.rc.open
         /\ f.rc.i = 0
         /\ Cursor(f) = rlast.a1

\* Fetch(0, 3) on the window [0, 2) with the cursor at 1: the window is
\* replaced and the cursor, which lies inside the new window, is back at 0.
C20_Witness ==
  /\ rlast.op = "Fetch"
  /\ rlast.ok
  /\ rlast.a1 = 0
  /\ rlast.a2 = 3
  /\ rlast.before.rc.open
  /\ rlast.before.startByte = 0
  /\ rlast.before.endByte = 2
  /\ Cursor(rlast.before) = 1
  /\ Len(rlast.reqs) = 1
  /\ Cursor(f) = 0

\* Fetch(0, 1) on the window [0, 2) with the cursor at 1: subsumed, the
\* cursor stays at 1.
C20_WitnessSubsumed ==
  /\ rlast.op = "Fetch"
  /\ rlast.ok
  /\ rlast.a1 = 0
  /\ rlast.a2 = 1
  /\ rlast.before.startByte = 0
  /\ rlast.before.endByte = 2
  /\ Cursor(rlast.before) = 1
  /\ rlast.reqs = <<>>
  /\ Cursor(f) = 1

====
